---- MODULE Spec2Model ----
(***************************************************************************)
(* Model of the scraping orchestrator of turkish-epin-sites-scraper:       *)
(* HttpOrchestrator.scrapeUrls and the two extractors it dispatches to     *)
(* (PuppeteerScraper, FlareSolverrScraper), followed by the fire-and-forget*)
(* delivery of the batch through N8NClient.sendBatchData.                  *)
(*                                                                         *)
(* A URL is a record [parses, hostname]; parses says whether `new URL(url)`*)
(* accepts the string and hostname is the parsed host as a sequence of     *)
(* dot-separated labels.  A domain is a sequence of labels, <<>> is ''.    *)
(***************************************************************************)
EXTENDS Integers, Sequences, FiniteSets, TLC

\* ------------------------------------------------------------------ bounds
MaxUrls == 2
MaxItems == 1
MaxJobs == 2
MaxSync == 1
ElementLimit == 50
MaxMatched == 52

\* ------------------------------------------------------- input universes
Urls ==
  { [parses |-> TRUE,  hostname |-> <<"www", "oyuneks", "com">>],
    [parses |-> TRUE,  hostname |-> <<"liderepin", "com">>],
    [parses |-> TRUE,  hostname |-> <<"www", "turkpin", "com">>],
    [parses |-> TRUE,  hostname |-> <<"example", "org">>],
    [parses |-> FALSE, hostname |-> <<>>] }

\* values that a failing call can throw: an Error with a message, or a
\* non-Error value
NoThrow == [thrown |-> FALSE, isError |-> FALSE, message |-> ""]
Thrown ==
  { [thrown |-> TRUE, isError |-> TRUE,  message |-> "boom"],
    [thrown |-> TRUE, isError |-> FALSE, message |-> ""] }
MayThrow == {NoThrow} \cup Thrown

Undefined == "<undefined>"
Null == "<null>"

RECURSIVE SeqsUpTo(_, _)
SeqsUpTo(S, n) ==
  IF n = 0 THEN {<<>>}
  ELSE LET shorter == SeqsUpTo(S, n - 1)
       IN shorter \cup {Append(s, x) : s \in {t \in shorter : Len(t) = n - 1}, x \in S}

UrlLists == SeqsUpTo(Urls, MaxUrls)

\* a call whose exception is swallowed either returns or throws
Boom == [thrown |-> TRUE, isError |-> TRUE, message |-> "boom"]
MayFail == {NoThrow, Boom}

\* ---------------------------------------------------------------- helpers
RECURSIVE replaceWww(_)
\* String.replace('www.', ''): drops the first label "www" that is followed
\* by a dot
replaceWww(h) ==
  IF Len(h) <= 1 THEN h
  ELSE IF Head(h) = "www" THEN Tail(h)
  ELSE <<Head(h)>> \o replaceWww(Tail(h))

extractDomain(url) ==
  IF url.parses THEN replaceWww(url.hostname) ELSE <<>>

FLARESOLVERR_REQUIRED_DOMAINS == { <<"oyuneks", "com">>, <<"liderepin", "com">> }

\* the domains that have a profile in SITE_CONFIGS
SITE_CONFIGS ==
  { <<"epindigital", "com">>, <<"turkpin", "com">>, <<"oyunone", "com">>,
    <<"playsultan", "com">>, <<"epinsultan", "com">>, <<"foxepin", "com">>,
    <<"perdigital", "com">>, <<"kopazar", "com">>, <<"vatangame", "com">>,
    <<"mtcgame", "com">>, <<"bursagb", "com">>, <<"liderepin", "com">>,
    <<"oyuneks", "com">>, <<"dijipin", "com">>, <<"itemsatis", "com">>,
    <<"inovapin", "com">>, <<"bynogame", "com">>, <<"gamesatis", "com">>,
    <<"hesap", "com", "tr">>, <<"s2gepin", "com">>, <<"hi2games", "com">>,
    <<"oyunfor", "com">> }

getGenericConfig(domain) == [domain |-> domain, generic |-> TRUE]

\* SITE_CONFIGS[domain] || this.getGenericConfig(domain)
configFor(domain) ==
  IF domain \in SITE_CONFIGS THEN [domain |-> domain, generic |-> FALSE]
  ELSE getGenericConfig(domain)

errorMessage(e, fallback) == IF e.isError THEN e.message ELSE fallback

failedOutcome(url, siteName, msg) ==
  [success |-> FALSE, url |-> url, items |-> <<>>, error |-> msg, siteName |-> siteName]

\* the items built from the n container elements that pass the filters
itemsOf(url, domain, n) ==
  [k \in 1..n |-> [el |-> k, url |-> url, siteName |-> domain]]

\* ------------------------------------------------------------ extractors
\* What the browser and the page do during one PuppeteerScraper.scrapeUrl
\* call and the scraper.close() that follows it: each call either returns or
\* throws; els is the number of elements that in-page extraction turns into
\* items.
PuppeteerEnvs ==
  { e \in [launch : MayThrow, newPage : MayThrow, nav1 : MayFail, nav2 : MayThrow,
           evaluate : MayFail, els : 0..MaxItems, pageClose : MayThrow,
           browserClose : MayThrow] :
      /\ e.launch.thrown =>
           /\ e.newPage = NoThrow /\ e.nav1 = NoThrow /\ e.browserClose = NoThrow
      /\ (e.launch.thrown \/ e.newPage.thrown) =>
           /\ e.nav1 = NoThrow /\ e.pageClose = NoThrow
      /\ ~e.nav1.thrown => e.nav2 = NoThrow
      /\ (e.launch.thrown \/ e.newPage.thrown \/ e.nav2.thrown) =>
           /\ e.evaluate = NoThrow /\ e.els = 0
      /\ e.evaluate.thrown => e.els = 0 }

\* PuppeteerScraper.extractItems: an exception of page.evaluate yields []
extractItems(url, e) ==
  IF e.evaluate.thrown THEN <<>> ELSE itemsOf(url, extractDomain(url), e.els)

\* variant: an outcome counts as successful only from the second item on
PuppeteerScrapeUrlFromSecond(url, e) ==
  LET domain == extractDomain(url)
      fail(t) == failedOutcome(url, domain, errorMessage(t, "Unknown Puppeteer error"))
      items == extractItems(url, e)
  IN IF e.launch.thrown THEN fail(e.launch)
     ELSE IF e.newPage.thrown THEN fail(e.newPage)
     ELSE IF e.nav1.thrown /\ e.nav2.thrown THEN fail(e.nav2)
     ELSE IF e.pageClose.thrown THEN fail(e.pageClose)
     ELSE [success |-> Len(items) > 1, url |-> url, items |-> items,
           error |-> IF Len(items) = 0 THEN "No items found with Puppeteer" ELSE Undefined,
           siteName |-> domain]

PuppeteerScrapeUrl(url, e) ==
  LET domain == extractDomain(url)
      fail(t) == failedOutcome(url, domain, errorMessage(t, "Unknown Puppeteer error"))
      items == extractItems(url, e)
  IN IF e.launch.thrown THEN fail(e.launch)
     ELSE IF e.newPage.thrown THEN fail(e.newPage)
     ELSE IF e.nav1.thrown /\ e.nav2.thrown THEN fail(e.nav2)
     ELSE IF e.pageClose.thrown THEN fail(e.pageClose)
     ELSE [success |-> Len(items) > 0, url |-> url, items |-> items,
           error |-> IF Len(items) = 0 THEN "No items found with Puppeteer" ELSE Undefined,
           siteName |-> domain]

\* PuppeteerScraper.close: closes the browser only if one was launched
PuppeteerCloseThrows(e) == ~e.launch.thrown /\ e.browserClose.thrown

\* What the FlareSolverr service does during one FlareSolverrScraper.scrapeUrl
FlareEnvs ==
  { e \in [session : MayFail, get : MayThrow, status : {"ok", "error"},
           parse : MayThrow, els : 0..MaxItems] :
      /\ e.get.thrown => e.status = "ok"
      /\ (e.get.thrown \/ e.status /= "ok") => e.parse = NoThrow
      /\ (e.get.thrown \/ e.status /= "ok" \/ e.parse.thrown) => e.els = 0 }

\* variant: an empty item list is reported as a failure, as the rendering
\* extractor does
FlareScrapeUrlNonEmpty(url, e) ==
  LET domain == extractDomain(url)
      fail(msg) == failedOutcome(url, domain, msg)
  IN IF e.get.thrown THEN fail(errorMessage(e.get, "Unknown error"))
     ELSE IF e.status /= "ok" THEN fail("FlareSolverr error")
     ELSE IF e.parse.thrown THEN fail(errorMessage(e.parse, "Unknown error"))
     ELSE IF e.els = 0 THEN fail("No items found with FlareSolverr")
     ELSE [success |-> TRUE, url |-> url, items |-> itemsOf(url, domain, e.els),
           error |-> Null, siteName |-> domain]

FlareScrapeUrl(url, e) ==
  LET domain == extractDomain(url)
      fail(msg) == failedOutcome(url, domain, msg)
  IN IF e.get.thrown THEN fail(errorMessage(e.get, "Unknown error"))
     ELSE IF e.status /= "ok" THEN fail("FlareSolverr error")
     ELSE IF e.parse.thrown THEN fail(errorMessage(e.parse, "Unknown error"))
     ELSE [success |-> TRUE, url |-> url, items |-> itemsOf(url, domain, e.els),
           error |-> Null, siteName |-> domain]

\* ----------------------------------------------------------- orchestrator
\* variant: only the first bypass domain is recognised
extractorForFirstOnly(domain) ==
  IF domain = <<"oyuneks", "com">> THEN "flaresolverr" ELSE "puppeteer"

\* HttpOrchestrator.scrapeUrlHttp: which extractor the domain selects
extractorFor(domain) ==
  IF domain \in FLARESOLVERR_REQUIRED_DOMAINS THEN "flaresolverr" ELSE "puppeteer"

\* HttpOrchestrator.scrapeUrlHttp: the outcome it resolves to
scrapeUrlHttp(url, e) ==
  LET domain == extractDomain(url)
  IN IF extractorFor(domain) = "flaresolverr" THEN FlareScrapeUrl(url, e)
     ELSE IF PuppeteerCloseThrows(e)
          THEN failedOutcome(url, domain, errorMessage(e.browserClose, "Unknown error"))
          ELSE PuppeteerScrapeUrl(url, e)

EnvsFor(url) ==
  IF extractorFor(extractDomain(url)) = "flaresolverr" THEN FlareEnvs ELSE PuppeteerEnvs

\* the outcomes scrapeUrlHttp(url) can resolve to
OutcomesFor(url) == { scrapeUrlHttp(url, e) : e \in EnvsFor(url) }

\* HttpOrchestrator.createBatchResult: the BatchResult built from the outcomes
RECURSIVE sumItems(_)
sumItems(rs) == IF rs = <<>> THEN 0 ELSE Len(Head(rs).items) + sumItems(Tail(rs))

falsy(s) == s \in {Undefined, Null, ""}

createBatchResult(us, rs) ==
  LET successCount == Cardinality({k \in 1..Len(rs) : rs[k].success})
      failed == SelectSeq(rs, LAMBDA r : ~r.success)
  IN [totalUrls |-> Len(us),
      successCount |-> successCount,
      failedCount |-> Len(rs) - successCount,
      results |-> rs,
      totalItems |-> sumItems(rs),
      errors |-> [k \in 1..Len(failed) |->
                    IF falsy(failed[k].error) THEN "Unknown error" ELSE failed[k].error]]

\* variant: the batch is delivered whenever some URL succeeded
shouldSendOnSuccess(br) == br.successCount > 0

\* createBatchResult hands the batch to N8NClient.sendBatchData only if it has items
shouldSend(br) == br.totalItems > 0

\* variant: the try block ends after the outcome is pushed
inTryScrapeOnly(step) == step \in {"scrapeUrlHttp", "push"}

\* the steps of the loop body that the try block of scrapeUrls encloses
inTry(step) == step \in {"scrapeUrlHttp", "push", "progressCallback", "sleep"}

\* variant: the extractor call is not awaited
pcAfterDispatchNoAwait == "sleep"

\* `await this.scrapeUrlHttp(...)`: the loop is suspended until the outcome resolves
pcAfterDispatch == "extract"

\* variant: every HTTP answer of the webhook counts as delivered
sendWithRetryAnyAnswer(response) == response \in {"2xx", "non2xx"}

\* variant: a failed delivery is recorded in the batch it was given
sendBatchDataRecordsFailure(br, delivered) ==
  IF delivered THEN br ELSE [br EXCEPT !.errors = Append(@, "Failed to send data to N8N")]

\* N8NClient.sendBatchData reads the batch and leaves it as it is
sendBatchData(br, delivered) == br

\* N8NClient.sendWithRetry: TRUE exactly for a 2xx answer of the single POST
sendWithRetry(response) == response = "2xx"

\* HttpOrchestrator.setConcurrency: clamps to [1, 8]
clampConcurrency(c) ==
  LET lo == IF c < 8 THEN c ELSE 8 IN IF lo > 1 THEN lo ELSE 1

NoResult == [totalUrls |-> -1]

VARIABLES
  pc,           \* position of the scrapeUrls call
  urls,         \* its urls argument
  hasCallback,  \* whether a progressCallback was supplied
  i,            \* loop index (0-based, as in the code)
  results,      \* the results array
  inFlight,     \* positions (1-based) whose extractor call has not resolved yet
  dispatched,   \* log of extractor invocations: [pos, extractor, config]
  concurrency,  \* HttpOrchestrator.concurrency
  returned,     \* the BatchResult scrapeUrls resolved to, NoResult before
  sendCalls,    \* number of N8NClient.sendBatchData calls
  posts,        \* number of POST attempts made by the delivery
  delivery,     \* "none", "pending", or what sendBatchData resolved to
  probe         \* one application of an extractor: its input and its outcome

VARIABLES
  expired,         \* Date.now() - startTime has passed maxExecutionTime
  n8n,             \* one N8NClient.sendBatchData call, step by step
  pup,             \* the rendering branch of scrapeUrlHttp, step by step
  scrapingStatus,  \* the status object of the HTTP shell
  failedUrls,      \* its failedUrls list
  lastBatchResult, \* its lastBatchResult
  jobs,            \* the background jobs started by POST /scrape/start
  syncRuns,        \* the POST /scrape/sync requests being served
  lastReply        \* what the last POST /scrape/start was answered

shellVars == <<scrapingStatus, failedUrls, lastBatchResult, jobs, syncRuns, lastReply>>

\* the state outside the scrapeUrls call
aux == <<expired, n8n, pup, shellVars>>

vars == <<pc, urls, hasCallback, i, results, inFlight, dispatched, concurrency,
          returned, sendCalls, posts, delivery, probe, aux>>

NoProbe == [fn |-> "none"]

\* N8NClient before sendBatchData is called
N8nIdle ==
  [pc |-> "idle", batch |-> NoResult, posts |-> 0, responses |-> <<>>, result |-> "none"]

\* no PuppeteerScraper exists yet
PupIdle ==
  [pc |-> "idle", rendered |-> 0, launches |-> 0, browser |-> FALSE, page |-> FALSE,
   pageCloseCalls |-> 0, navAttempts |-> 0, nav1 |-> NoThrow, nav2 |-> NoThrow,
   extracted |-> FALSE, items |-> 0, errAt |-> "none", err |-> NoThrow,
   out |-> [success |-> FALSE, items |-> 0, error |-> Undefined]]

\* `let scrapingStatus = {...}` at module load
InitialStatus ==
  [isRunning |-> FALSE, currentBatch |-> Null, progress |-> 0, totalUrls |-> 0,
   processedUrls |-> 0, successCount |-> 0, failedCount |-> 0, totalItems |-> 0]

Init ==
  /\ pc = "idle"
  /\ urls = <<>>
  /\ hasCallback = FALSE
  /\ i = 0
  /\ results = <<>>
  /\ inFlight = {}
  /\ dispatched = <<>>
  /\ concurrency = 2
  /\ returned = NoResult
  /\ sendCalls = 0
  /\ posts = 0
  /\ delivery = "none"
  /\ probe = NoProbe
  /\ expired = FALSE
  /\ n8n = N8nIdle
  /\ pup = PupIdle
  /\ scrapingStatus = InitialStatus
  /\ failedUrls = <<>>
  /\ lastBatchResult = Null
  /\ jobs = <<>>
  /\ syncRuns = 0
  /\ lastReply = "none"

\* scrapeUrls(urls, progressCallback?) is called
ScrapeUrls ==
  /\ pc = "idle"
  /\ \E us \in UrlLists, cb \in BOOLEAN :
       /\ urls' = us
       /\ hasCallback' = cb
  /\ i' = 0
  /\ results' = <<>>
  /\ pc' = "loop"
  /\ UNCHANGED <<inFlight, dispatched, concurrency, returned, sendCalls, posts, delivery, probe, aux>>

\* loop body, up to the call of the extractor inside scrapeUrlHttp
Dispatch ==
  /\ pc = "loop"
  /\ i < Len(urls)
  /\ inFlight' = inFlight \cup {i + 1}
  /\ LET domain == extractDomain(urls[i + 1])
     IN dispatched' = Append(dispatched,
                             [pos |-> i + 1, extractor |-> extractorFor(domain),
                              config |-> configFor(domain)])
  /\ pc' = pcAfterDispatch
  /\ UNCHANGED <<urls, hasCallback, i, results, concurrency, returned, sendCalls, posts, delivery, probe, aux>>

\* variant: the catch block records the failure and leaves the loop
CaughtAborts(t) ==
  /\ results' = Append(results,
                       failedOutcome(urls[i + 1], extractDomain(urls[i + 1]),
                                     errorMessage(t, "Unknown error")))
  /\ i' = Len(urls)
  /\ pc' = "loop"

\* the catch block of scrapeUrls: a failed outcome for the current URL, then
\* the next iteration
Caught(t) ==
  /\ results' = Append(results,
                       failedOutcome(urls[i + 1], extractDomain(urls[i + 1]),
                                     errorMessage(t, "Unknown error")))
  /\ i' = i + 1
  /\ pc' = "loop"

\* scrapeUrlHttp resolves and its outcome is pushed
ExtractorReturns ==
  /\ pc = "extract"
  /\ \E r \in OutcomesFor(urls[i + 1]) : results' = Append(results, r)
  /\ inFlight' = inFlight \ {i + 1}
  /\ pc' = IF hasCallback THEN "callback" ELSE "sleep"
  /\ UNCHANGED <<urls, hasCallback, i, dispatched, concurrency, returned, sendCalls, posts, delivery, probe, aux>>

\* progressCallback(i + 1, urls.length) returns or throws
ProgressCallback ==
  /\ pc = "callback"
  /\ \E t \in MayFail :
       IF ~t.thrown THEN /\ pc' = "sleep"
                         /\ UNCHANGED <<i, results>>
       ELSE IF inTry("progressCallback") THEN Caught(t)
       ELSE /\ pc' = "thrown"
            /\ UNCHANGED <<i, results>>
  /\ UNCHANGED <<urls, hasCallback, inFlight, dispatched, concurrency, returned, sendCalls, posts, delivery, probe, aux>>

\* the one-second sleep between requests (skipped after the last URL)
Sleep ==
  /\ pc = "sleep"
  /\ i' = i + 1
  /\ pc' = "loop"
  /\ UNCHANGED <<urls, hasCallback, results, inFlight, dispatched, concurrency, returned, sendCalls, posts, delivery, probe, aux>>

\* after the loop: createBatchResult, start of the delivery, return
CreateBatchResult ==
  /\ pc = "loop"
  /\ i >= Len(urls)
  /\ LET br == createBatchResult(urls, results)
     IN /\ returned' = br
        /\ IF shouldSend(br)
           THEN /\ sendCalls' = sendCalls + 1
                /\ posts' = posts + 1
                /\ delivery' = "pending"
           ELSE UNCHANGED <<sendCalls, posts, delivery>>
  /\ pc' = "done"
  /\ UNCHANGED <<urls, hasCallback, i, results, inFlight, dispatched, concurrency, probe, aux>>

\* the POST of sendWithRetry is answered, fails or times out
DeliveryResolves ==
  /\ delivery = "pending"
  /\ \E response \in {"2xx", "non2xx", "networkError", "timeout"} :
       /\ delivery' = IF sendWithRetry(response) THEN "sent" ELSE "failed"
       /\ returned' = sendBatchData(returned, sendWithRetry(response))
  /\ UNCHANGED <<pc, urls, hasCallback, i, results, inFlight, dispatched, concurrency, sendCalls, posts, probe, aux>>

\* setConcurrency(c) is called while scrapeUrls is not running or is suspended
\* at one of its awaits
SetConcurrency ==
  /\ pc \in {"idle", "extract", "sleep", "done"}
  /\ \E c \in {9} : concurrency' = clampConcurrency(c)
  /\ UNCHANGED <<pc, urls, hasCallback, i, results, inFlight, dispatched, returned, sendCalls, posts, delivery, probe, aux>>

Next ==
  \/ ScrapeUrls
  \/ Dispatch
  \/ ExtractorReturns
  \/ ProgressCallback
  \/ Sleep
  \/ CreateBatchResult
  \/ DeliveryResolves
  \/ SetConcurrency

Spec == Init /\ [][Next]_vars

\* ------------------------------------------- extractors applied on their own
\* PuppeteerScraper.scrapeUrl applied to one URL in one environment
ProbePuppeteer ==
  /\ pc = "idle"
  /\ \E u \in Urls, e \in PuppeteerEnvs :
       probe' = [fn |-> "puppeteer", url |-> u, env |-> e, out |-> PuppeteerScrapeUrl(u, e)]
  /\ UNCHANGED <<pc, urls, hasCallback, i, results, inFlight, dispatched, concurrency,
                 returned, sendCalls, posts, delivery, aux>>

\* FlareSolverrScraper.scrapeUrl applied to one URL in one environment
ProbeFlare ==
  /\ pc = "idle"
  /\ \E u \in Urls, e \in FlareEnvs :
       probe' = [fn |-> "flaresolverr", url |-> u, env |-> e, out |-> FlareScrapeUrl(u, e)]
  /\ UNCHANGED <<pc, urls, hasCallback, i, results, inFlight, dispatched, concurrency,
                 returned, sendCalls, posts, delivery, aux>>

\* the outcome the extractor chosen for url returns to scrapeUrlHttp
extractorOutcome(url, e) ==
  IF extractorFor(extractDomain(url)) = "flaresolverr" THEN FlareScrapeUrl(url, e)
  ELSE PuppeteerScrapeUrl(url, e)

\* HttpOrchestrator.scrapeUrlHttp applied to one URL in one environment: the
\* extractor's outcome next to the outcome that scrapeUrls records
ProbeScrapeUrlHttp ==
  /\ pc = "idle"
  /\ \E u \in Urls :
       \E e \in EnvsFor(u) :
         probe' = [fn |-> "scrapeUrlHttp", url |-> u, env |-> e,
                   extractorOut |-> extractorOutcome(u, e), out |-> scrapeUrlHttp(u, e)]
  /\ UNCHANGED <<pc, urls, hasCallback, i, results, inFlight, dispatched, concurrency,
                 returned, sendCalls, posts, delivery, aux>>

\* variant: a failure of sessions.create is not caught
sessionFailureCaughtNever(t) == FALSE

\* the try / catch around the sessions.create call: its failure is only logged
sessionFailureCaught(t) == TRUE

\* the commands FlareSolverrScraper.scrapeUrl sends to the service, in order
FlareCalls(e) ==
  IF e.session.thrown /\ ~sessionFailureCaught(e.session)
  THEN <<"sessions.create">>
  ELSE <<"sessions.create", "request.get">>

\* FlareSolverrScraper.scrapeUrl applied to one URL in one environment, with
\* the commands it sends
ProbeFlareCalls ==
  /\ pc = "idle"
  /\ \E u \in Urls, e \in FlareEnvs :
       probe' = [fn |-> "flareCalls", url |-> u, env |-> e, calls |-> FlareCalls(e),
                 out |-> FlareScrapeUrl(u, e)]
  /\ UNCHANGED <<pc, urls, hasCallback, i, results, inFlight, dispatched, concurrency,
                 returned, sendCalls, posts, delivery, aux>>

NextExtractors ==
  \/ ProbePuppeteer
  \/ ProbeFlare
  \/ ProbeScrapeUrlHttp
  \/ ProbeFlareCalls

SpecExtractors == Init /\ [][NextExtractors]_vars

\* the variables of the scrapeUrls call
orchVars == <<pc, urls, hasCallback, i, results, inFlight, dispatched, concurrency,
              returned, sendCalls, posts, delivery>>

\* ------------------------------------------------ N8NClient.sendBatchData
\* what the webhook can answer to one axios.post
Responses == {"2xx", "non2xx", "networkError", "timeout"}

RECURSIVE OutcomeLists(_)
\* the outcome lists a batch over the URLs us can hold
OutcomeLists(us) ==
  IF us = <<>> THEN {<<>>}
  ELSE {<<r>> \o rest : r \in OutcomesFor(Head(us)), rest \in OutcomeLists(Tail(us))}

\* the batches sendBatchData can be given
DeliveryBatches ==
  UNION {{createBatchResult(us, rs) : rs \in OutcomeLists(us)} : us \in UrlLists}

\* the try block of sendBatchData encloses the building of the payload
payloadInTry == TRUE

\* sendBatchData(batchResult) is called: the payload is built and the POST of
\* sendWithRetry is issued
N8nSendBatchData ==
  /\ n8n.pc = "idle"
  /\ \E br \in DeliveryBatches, build \in MayFail :
       n8n' = IF ~build.thrown
              THEN [pc |-> "posting", batch |-> br, posts |-> 1, responses |-> <<>>,
                    result |-> "none"]
              ELSE [pc |-> IF payloadInTry THEN "resolved" ELSE "rejected",
                    batch |-> br, posts |-> 0, responses |-> <<>>, result |-> FALSE]
  /\ UNCHANGED <<orchVars, probe, expired, pup, shellVars>>

\* the POST is answered, fails or times out; sendWithRetry and sendBatchData
\* return
N8nPostAnswered ==
  /\ n8n.pc = "posting"
  /\ \E response \in Responses :
       n8n' = [n8n EXCEPT !.pc = "resolved",
                          !.responses = Append(@, response),
                          !.result = sendWithRetry(response)]
  /\ UNCHANGED <<orchVars, probe, expired, pup, shellVars>>

NextDelivery ==
  \/ N8nSendBatchData
  \/ N8nPostAnswered

SpecDelivery == Init /\ [][NextDelivery]_vars

\* ------------------------------------------------------------- HTTP shell
\* the bodies of POST /scrape/start: req.body.urls is an array of URLs or is
\* missing (the URLs come from urls.txt); req.body.resumeUrl is set or not

StartUrlLists ==
  { <<>>,
    <<[parses |-> TRUE, hostname |-> <<"www", "turkpin", "com">>]>>,
    <<[parses |-> TRUE, hostname |-> <<"www", "turkpin", "com">>],
      [parses |-> TRUE, hostname |-> <<"liderepin", "com">>]>> }

StartBodies ==
  [hasUrls : {TRUE}, urls : StartUrlLists, resumeUrl : BOOLEAN]
    \cup [hasUrls : {FALSE}, urls : {<<>>}, resumeUrl : BOOLEAN]

\* generateBatchId(): a fresh identifier per batch, here per job
generateBatchId(j) == <<"batch_1", "batch_2", "batch_3", "batch_4">>[j]

\* the URLs that urls.txt holds when it can be read
FileUrls == <<[parses |-> TRUE, hostname |-> <<"liderepin", "com">>]>>

\* variant: the handler does not look at isRunning
alreadyRunningIgnored(status) == FALSE

\* `if (scrapingStatus.isRunning)` at the top of the POST /scrape/start handler
alreadyRunning(status) == status.isRunning

\* HttpOrchestrator has no method setResumeUrl
hasSetResumeUrl == FALSE

\* Math.round((processed / total) * 90) + 10
progressOf(processed, total) == ((2 * 90 * processed + total) \div (2 * total)) + 10

\* the jobs whose background task has not ended yet
RunningJobs == {j \in 1..Len(jobs) : jobs[j].pc \notin {"completed", "error"}}

\* the scrapeUrls invocations in progress in the process
ScrapesInProgress == Cardinality({j \in 1..Len(jobs) : jobs[j].pc = "scraping"}) + syncRuns

\* POST /scrape/start while a job is running: answered with the current status
StartAlreadyRunning ==
  /\ alreadyRunning(scrapingStatus)
  /\ lastReply' = "alreadyRunning"
  /\ UNCHANGED <<scrapingStatus, failedUrls, lastBatchResult, jobs, syncRuns>>
  /\ UNCHANGED <<orchVars, probe, expired, n8n, pup>>

\* POST /scrape/start otherwise: status reset, answer, background job scheduled
StartAccepted ==
  /\ ~alreadyRunning(scrapingStatus)
  /\ Len(jobs) < MaxJobs
  /\ \E body \in StartBodies :
       jobs' = Append(jobs, [pc |-> "scheduled", hasUrls |-> body.hasUrls,
                             resumeUrl |-> body.resumeUrl, urls |-> body.urls,
                             results |-> <<>>, result |-> NoResult])
  /\ scrapingStatus' = [InitialStatus EXCEPT !.isRunning = TRUE]
  /\ failedUrls' = <<>>
  /\ lastReply' = "started"
  /\ UNCHANGED <<lastBatchResult, syncRuns>>
  /\ UNCHANGED <<orchVars, probe, expired, n8n, pup>>

\* variant: the catch block leaves isRunning as it is
isRunningAfterCatchKept(status) == status.isRunning

\* `scrapingStatus.isRunning = false` in the catch block of the background job
isRunningAfterCatch(status) == FALSE

\* the catch block of the background job
JobCatch(j, msg) ==
  /\ scrapingStatus' = [scrapingStatus EXCEPT !.isRunning = isRunningAfterCatch(scrapingStatus),
                                              !.progress = -1]
  /\ failedUrls' = Append(failedUrls, [url |-> "SYSTEM_ERROR", error |-> msg])
  /\ jobs' = [jobs EXCEPT ![j] = [pc |-> "error", resumeUrl |-> jobs[j].resumeUrl]]
  /\ UNCHANGED lastBatchResult

\* the setImmediate callback starts: new HttpOrchestrator, setResumeUrl if
\* the request carries a resumeUrl, then initialize() is awaited
JobBegin(j) ==
  /\ jobs[j].pc = "scheduled"
  /\ IF jobs[j].resumeUrl /\ ~hasSetResumeUrl
     THEN JobCatch(j, "orchestrator.setResumeUrl is not a function")
     ELSE /\ jobs' = [jobs EXCEPT ![j].pc = "initialize"]
          /\ UNCHANGED <<scrapingStatus, failedUrls, lastBatchResult>>
  /\ UNCHANGED <<syncRuns, lastReply>>
  /\ UNCHANGED <<orchVars, probe, expired, n8n, pup>>

\* initialize() has resolved: progress 5, then scrapeUrls(req.body.urls) is
\* called or urls.txt is read to count its URLs
JobInitialized(j) ==
  /\ jobs[j].pc = "initialize"
  /\ IF jobs[j].hasUrls
     THEN /\ scrapingStatus' = [scrapingStatus EXCEPT !.progress = 5,
                                                     !.totalUrls = Len(jobs[j].urls)]
          /\ jobs' = [jobs EXCEPT ![j].pc = "scraping"]
     ELSE /\ scrapingStatus' = [scrapingStatus EXCEPT !.progress = 5]
          /\ jobs' = [jobs EXCEPT ![j].pc = "countFile"]
  /\ UNCHANGED <<failedUrls, lastBatchResult, syncRuns, lastReply>>
  /\ UNCHANGED <<orchVars, probe, expired, n8n, pup>>

\* urls.txt is read to count the URLs; a failure is only logged; then
\* scrapeFromFile is called
JobFileCounted(j) ==
  /\ jobs[j].pc = "countFile"
  /\ \E read \in MayFail :
       scrapingStatus' = IF read.thrown THEN scrapingStatus
                         ELSE [scrapingStatus EXCEPT !.totalUrls = Len(FileUrls)]
  /\ jobs' = [jobs EXCEPT ![j].pc = "readFile"]
  /\ UNCHANGED <<failedUrls, lastBatchResult, syncRuns, lastReply>>
  /\ UNCHANGED <<orchVars, probe, expired, n8n, pup>>

\* HttpOrchestrator.scrapeFromFile: reads the file and calls scrapeUrls, or
\* rethrows the read error
JobFileRead(j) ==
  /\ jobs[j].pc = "readFile"
  /\ \E read \in MayThrow :
       IF read.thrown
       THEN JobCatch(j, errorMessage(read, "Unknown system error"))
       ELSE /\ jobs' = [jobs EXCEPT ![j].pc = "scraping", ![j].urls = FileUrls]
            /\ UNCHANGED <<scrapingStatus, failedUrls, lastBatchResult>>
  /\ UNCHANGED <<syncRuns, lastReply>>
  /\ UNCHANGED <<orchVars, probe, expired, n8n, pup>>

\* one iteration of scrapeUrls inside the job: the outcome is pushed and
\* updateProgress(processed, total) is called
JobUrlScraped(j) ==
  /\ jobs[j].pc = "scraping"
  /\ Len(jobs[j].results) < Len(jobs[j].urls)
  /\ LET processed == Len(jobs[j].results) + 1
         total == Len(jobs[j].urls)
     IN /\ \E r \in OutcomesFor(jobs[j].urls[processed]) :
             jobs' = [jobs EXCEPT ![j].results = Append(@, r)]
        /\ scrapingStatus' = [scrapingStatus EXCEPT !.processedUrls = processed,
                                                   !.totalUrls = total,
                                                   !.progress = progressOf(processed, total)]
  /\ UNCHANGED <<failedUrls, lastBatchResult, syncRuns, lastReply>>
  /\ UNCHANGED <<orchVars, probe, expired, n8n, pup>>

\* scrapeUrls returns its BatchResult; orchestrator.close() is awaited
JobScrapeReturned(j) ==
  /\ jobs[j].pc = "scraping"
  /\ Len(jobs[j].results) = Len(jobs[j].urls)
  /\ jobs' = [jobs EXCEPT ![j].pc = "closing",
                          ![j].result = [batchId |-> generateBatchId(j)] @@
                                        createBatchResult(jobs[j].urls, jobs[j].results)]
  /\ UNCHANGED <<scrapingStatus, failedUrls, lastBatchResult, syncRuns, lastReply>>
  /\ UNCHANGED <<orchVars, probe, expired, n8n, pup>>

\* variant: every outcome is stored as a failed URL
failedResultsAll(rs) == rs

\* result.results.filter(r => !r.success)
failedResults(rs) == SelectSeq(rs, LAMBDA r : ~r.success)

\* the final status update of the job
JobCompleted(j) ==
  /\ jobs[j].pc = "closing"
  /\ LET result == jobs[j].result
         failed == failedResults(result.results)
     IN /\ scrapingStatus' = [scrapingStatus EXCEPT !.isRunning = FALSE,
                                                   !.progress = 100,
                                                   !.currentBatch = result.batchId,
                                                   !.processedUrls = result.totalUrls,
                                                   !.successCount = result.successCount,
                                                   !.failedCount = result.failedCount,
                                                   !.totalItems = result.totalItems]
        /\ failedUrls' = [k \in 1..Len(failed) |->
                            [url |-> failed[k].url,
                             error |-> IF falsy(failed[k].error) THEN "Unknown error"
                                       ELSE failed[k].error]]
        /\ lastBatchResult' = result
  /\ jobs' = [jobs EXCEPT ![j] = [pc |-> "completed", resumeUrl |-> jobs[j].resumeUrl]]
  /\ UNCHANGED <<syncRuns, lastReply>>
  /\ UNCHANGED <<orchVars, probe, expired, n8n, pup>>

\* POST /scrape/sync with valid URLs: an orchestrator is created and its
\* scrapeUrls is awaited
SyncBegin ==
  /\ syncRuns < MaxSync
  /\ syncRuns' = syncRuns + 1
  /\ UNCHANGED <<scrapingStatus, failedUrls, lastBatchResult, jobs, lastReply>>
  /\ UNCHANGED <<orchVars, probe, expired, n8n, pup>>

\* the scrapeUrls of a POST /scrape/sync returns and the request is answered
SyncEnd ==
  /\ syncRuns > 0
  /\ syncRuns' = syncRuns - 1
  /\ UNCHANGED <<scrapingStatus, failedUrls, lastBatchResult, jobs, lastReply>>
  /\ UNCHANGED <<orchVars, probe, expired, n8n, pup>>

NextShell ==
  \/ StartAlreadyRunning
  \/ StartAccepted
  \/ \E j \in 1..Len(jobs) :
       \/ JobBegin(j)
       \/ JobInitialized(j)
       \/ JobFileCounted(j)
       \/ JobFileRead(j)
       \/ JobUrlScraped(j)
       \/ JobScrapeReturned(j)
       \/ JobCompleted(j)
  \/ SyncBegin
  \/ SyncEnd

SpecShell == Init /\ [][NextShell]_vars

\* one step of some background job: every await of a job settles, as the
\* extractor calls and the outbound HTTP calls have timeouts
JobStep ==
  \E j \in 1..Len(jobs) :
    \/ JobBegin(j)
    \/ JobInitialized(j)
    \/ JobFileCounted(j)
    \/ JobFileRead(j)
    \/ JobUrlScraped(j)
    \/ JobScrapeReturned(j)
    \/ JobCompleted(j)

\* the requests and steps that read or write scrapingStatus: POST
\* /scrape/start and the background jobs (POST /scrape/sync does neither)
NextJobs ==
  \/ StartAlreadyRunning
  \/ StartAccepted
  \/ JobStep

SpecJobs == Init /\ [][NextJobs]_vars /\ WF_vars(JobStep)

\* ------------------------------------------------------- max execution time
\* the clock passes startTime + maxExecutionTime (both set by the constructor
\* and initialize(), read by no method of the orchestrator)
MaxExecutionTimePasses ==
  /\ ~expired
  /\ expired' = TRUE
  /\ UNCHANGED <<orchVars, probe, n8n, pup, shellVars>>

NextTime == Next \/ MaxExecutionTimePasses

SpecTime == Init /\ [][NextTime]_vars

\* ------------------------------------- PuppeteerScraper.scrapeUrl, by steps
\* The rendered URLs of one orchestrator, one await at a time. pup.rendered
\* counts the rendered URLs finished, pup.launches the calls of
\* puppeteer.launch, pup.browser is `this.browser` of the current scraper,
\* pup.page is `page`, pup.errAt the step whose exception reached the catch.

\* an exception reaches the catch block of scrapeUrl
PupThrow(at, t) == [pup EXCEPT !.pc = "catch", !.errAt = at, !.err = t]

\* variant: the catch block never closes the page
closeInCatchNever(page) == FALSE

\* `if (page)` of the catch block: the page is closed if one was opened
closeInCatch(page) == page

\* variant: a failed primary navigation goes to the catch block
pcAfterNav1FailsCatch == "catch"

\* the catch of the primary navigation runs the fallback navigation
pcAfterNav1Fails == "nav2"

\* scrapeUrlHttp on a rendered URL: new PuppeteerScraper(config), then
\* scrapeUrl(url) runs up to `await puppeteer.launch(...)`, which a new
\* scraper always reaches as its browser is null
PupScrapeUrl ==
  /\ pup.pc = "idle"
  /\ pup.rendered < MaxUrls
  /\ pup' = [PupIdle EXCEPT !.pc = "launch", !.rendered = pup.rendered,
                            !.launches = pup.launches + 1]
  /\ UNCHANGED <<orchVars, probe, expired, n8n, shellVars>>

\* puppeteer.launch settles; then `await this.browser.newPage()`
PupLaunched ==
  /\ pup.pc = "launch"
  /\ \E t \in MayThrow :
       pup' = IF t.thrown THEN PupThrow("launch", t)
              ELSE [pup EXCEPT !.pc = "newPage", !.browser = TRUE]
  /\ UNCHANGED <<orchVars, probe, expired, n8n, shellVars>>

\* newPage settles; then the page is set up (viewport, user agent, headers,
\* request interception)
PupNewPage ==
  /\ pup.pc = "newPage"
  /\ \E t \in MayThrow :
       pup' = IF t.thrown THEN PupThrow("newPage", t)
              ELSE [pup EXCEPT !.pc = "setup", !.page = TRUE]
  /\ UNCHANGED <<orchVars, probe, expired, n8n, shellVars>>

\* the set-up calls settle; then the primary page.goto is awaited
PupSetup ==
  /\ pup.pc = "setup"
  /\ \E t \in MayThrow :
       pup' = IF t.thrown THEN PupThrow("setup", t)
              ELSE [pup EXCEPT !.pc = "nav1", !.navAttempts = @ + 1]
  /\ UNCHANGED <<orchVars, probe, expired, n8n, shellVars>>

\* the primary navigation settles; on failure the fallback page.goto is awaited
PupNav1 ==
  /\ pup.pc = "nav1"
  /\ \E t \in MayFail :
       pup' = IF ~t.thrown THEN [pup EXCEPT !.pc = "wait"]
              ELSE IF pcAfterNav1Fails = "nav2"
                   THEN [pup EXCEPT !.pc = "nav2", !.nav1 = t, !.navAttempts = @ + 1]
                   ELSE [PupThrow("nav1", t) EXCEPT !.nav1 = t]
  /\ UNCHANGED <<orchVars, probe, expired, n8n, shellVars>>

\* the fallback navigation settles; it is not inside a try of its own
PupNav2 ==
  /\ pup.pc = "nav2"
  /\ \E t \in MayThrow :
       pup' = IF t.thrown THEN [PupThrow("nav2", t) EXCEPT !.nav2 = t]
              ELSE [pup EXCEPT !.pc = "wait"]
  /\ UNCHANGED <<orchVars, probe, expired, n8n, shellVars>>

\* the waits (vatangame scroll, waitForSelector with its own catch,
\* waitForTimeout) settle; then extractItems is awaited
PupWait ==
  /\ pup.pc = "wait"
  /\ \E t \in MayThrow :
       pup' = IF t.thrown THEN PupThrow("wait", t)
              ELSE [pup EXCEPT !.pc = "extract"]
  /\ UNCHANGED <<orchVars, probe, expired, n8n, shellVars>>

\* extractItems resolves (an exception of page.evaluate yields []); then
\* `await page.close()` is called
PupExtract ==
  /\ pup.pc = "extract"
  /\ \E evaluate \in MayFail, els \in 0..MaxItems :
       pup' = [pup EXCEPT !.pc = "pageClose", !.extracted = TRUE,
                          !.items = IF evaluate.thrown THEN 0 ELSE els,
                          !.pageCloseCalls = @ + 1]
  /\ UNCHANGED <<orchVars, probe, expired, n8n, shellVars>>

\* page.close() settles; scrapeUrl returns the outcome, success iff items
PupPageClosed ==
  /\ pup.pc = "pageClose"
  /\ \E t \in MayThrow :
       pup' = IF t.thrown THEN PupThrow("pageClose", t)
              ELSE [pup EXCEPT !.pc = "returned",
                               !.out = [success |-> pup.items > 0, items |-> pup.items,
                                        error |-> IF pup.items = 0
                                                  THEN "No items found with Puppeteer"
                                                  ELSE Undefined]]
  /\ UNCHANGED <<orchVars, probe, expired, n8n, shellVars>>

\* the catch block: closes the page if there is one, ignoring a failure of
\* that close, and returns the failed outcome
PupCatch ==
  /\ pup.pc = "catch"
  /\ pup' = [pup EXCEPT !.pc = "returned",
                        !.pageCloseCalls = IF closeInCatch(pup.page) THEN @ + 1 ELSE @,
                        !.out = [success |-> FALSE, items |-> 0,
                                 error |-> errorMessage(pup.err, "Unknown Puppeteer error")]]
  /\ UNCHANGED <<orchVars, probe, expired, n8n, shellVars>>

\* scrapeUrlHttp goes on: `await scraper.close()` closes the browser of this
\* scraper if one was launched; the scraper is then dropped
PupScraperClosed ==
  /\ pup.pc = "returned"
  /\ \E t \in MayFail :
       pup' = [pup EXCEPT !.pc = "idle", !.rendered = @ + 1,
                          !.browser = IF pup.browser /\ t.thrown THEN TRUE ELSE FALSE]
  /\ UNCHANGED <<orchVars, probe, expired, n8n, shellVars>>

NextPuppeteer ==
  \/ PupScrapeUrl
  \/ PupLaunched
  \/ PupNewPage
  \/ PupSetup
  \/ PupNav1
  \/ PupNav2
  \/ PupWait
  \/ PupExtract
  \/ PupPageClosed
  \/ PupCatch
  \/ PupScraperClosed

SpecPuppeteer == Init /\ [][NextPuppeteer]_vars

\* ------------------------------------------------------------ JS strings
\* A string is the sequence of its characters; "<lira>" and "<euro>" stand
\* for the currency signs.
Digit == {"0", "1", "2", "3", "4", "5", "6", "7", "8", "9"}

digitValue(c) ==
  CASE c = "0" -> 0 [] c = "1" -> 1 [] c = "2" -> 2 [] c = "3" -> 3 [] c = "4" -> 4
    [] c = "5" -> 5 [] c = "6" -> 6 [] c = "7" -> 7 [] c = "8" -> 8 [] c = "9" -> 9

\* String.prototype.toLowerCase, one character
lowerChar(c) ==
  CASE c = "A" -> "a" [] c = "B" -> "b" [] c = "C" -> "c" [] c = "D" -> "d"
    [] c = "E" -> "e" [] c = "F" -> "f" [] c = "G" -> "g" [] c = "H" -> "h"
    [] c = "I" -> "i" [] c = "J" -> "j" [] c = "K" -> "k" [] c = "L" -> "l"
    [] c = "M" -> "m" [] c = "N" -> "n" [] c = "O" -> "o" [] c = "P" -> "p"
    [] c = "Q" -> "q" [] c = "R" -> "r" [] c = "S" -> "s" [] c = "T" -> "t"
    [] c = "U" -> "u" [] c = "V" -> "v" [] c = "W" -> "w" [] c = "X" -> "x"
    [] c = "Y" -> "y" [] c = "Z" -> "z" [] OTHER -> c

toLowerCase(s) == [k \in 1..Len(s) |-> lowerChar(s[k])]

\* s.startsWith(sub, p - 1)
startsAt(s, sub, p) ==
  /\ p + Len(sub) - 1 <= Len(s)
  /\ \A k \in 1..Len(sub) : s[p + k - 1] = sub[k]

\* String.prototype.includes
includes(s, sub) == \E p \in 1..(Len(s) + 1) : startsAt(s, sub, p)

\* String.prototype.trim (the only white space here is the blank)
RECURSIVE trimStart(_)
trimStart(s) == IF s /= <<>> /\ Head(s) = " " THEN trimStart(Tail(s)) ELSE s

RECURSIVE trimEnd(_)
trimEnd(s) ==
  IF s /= <<>> /\ s[Len(s)] = " " THEN trimEnd(SubSeq(s, 1, Len(s) - 1)) ELSE s

trim(s) == trimEnd(trimStart(s))

\* s.replace(/\s+/g, ' ')
RECURSIVE collapseSpaces(_)
collapseSpaces(s) ==
  IF Len(s) < 2 THEN s
  ELSE IF s[1] = " " /\ s[2] = " " THEN collapseSpaces(Tail(s))
  ELSE <<s[1]>> \o collapseSpaces(Tail(s))

\* s.substring(0, n)
substring0(s, n) == SubSeq(s, 1, IF Len(s) < n THEN Len(s) ELSE n)

\* the end of the longest run of digits of s that starts at p (p - 1 if none)
RECURSIVE digitsEnd(_, _)
digitsEnd(s, p) ==
  IF p <= Len(s) /\ s[p] \in Digit THEN digitsEnd(s, p + 1) ELSE p - 1

\* s.replace(',', '.'): the first comma only
RECURSIVE replaceFirstComma(_)
replaceFirstComma(s) ==
  IF s = <<>> THEN s
  ELSE IF Head(s) = "," THEN <<".">> \o Tail(s)
  ELSE <<Head(s)>> \o replaceFirstComma(Tail(s))

\* a JS number: NaN, or the fraction num / den with den a power of ten
NaN == [nan |-> TRUE, num |-> 0, den |-> 1]

RECURSIVE digitsValue(_)
digitsValue(ds) ==
  IF ds = <<>> THEN 0 ELSE 10 * digitsValue(SubSeq(ds, 1, Len(ds) - 1)) + digitValue(ds[Len(ds)])

RECURSIVE pow10(_)
pow10(n) == IF n = 0 THEN 1 ELSE 10 * pow10(n - 1)

\* parseFloat on a string without sign and exponent: the longest prefix
\* `digits [. digits]` or `. digits`, NaN if there is none
parseFloat(s) ==
  LET ie == digitsEnd(s, 1)
      hasDot == ie + 1 <= Len(s) /\ s[ie + 1] = "."
      fe == IF hasDot THEN digitsEnd(s, ie + 2) ELSE ie
      int == SubSeq(s, 1, ie)
      frac == IF hasDot THEN SubSeq(s, ie + 2, fe) ELSE <<>>
  IN IF int = <<>> /\ frac = <<>> THEN NaN
     ELSE [nan |-> FALSE,
           num |-> digitsValue(int) * pow10(Len(frac)) + digitsValue(frac),
           den |-> pow10(Len(frac))]

\* the JS comparisons price > 0 and price < 1000000 (false for NaN)
positive(x) == ~x.nan /\ x.num > 0
belowMillion(x) == ~x.nan /\ x.num < 1000000 * x.den

\* ---------------------------------------------------------------- prices
\* the in-page parsePrice of PuppeteerScraper.extractItems
inPageParsePrice(priceText) ==
  LET kept == SelectSeq(priceText, LAMBDA c : c \in Digit \cup {".", ","})
      lower == toLowerCase(priceText)
  IN [price |-> parseFloat(replaceFirstComma(kept)),
      currency |-> IF includes(lower, <<"u", "s", "d">>) THEN "USD"
                   ELSE IF includes(lower, <<"e", "u", "r">>) THEN "EUR" ELSE "TRY"]

\* the in-page isValidPrice and isValidPrice of the helpers
isValidPrice(price) == ~price.nan /\ positive(price) /\ belowMillion(price)

\* the end of the match of \d+(?:[.,]\d+)? at p, given that s[p] is a digit
numberEnd(s, p) ==
  LET ie == digitsEnd(s, p)
  IN IF ie + 2 <= Len(s) /\ s[ie + 1] \in {".", ","} /\ s[ie + 2] \in Digit
     THEN digitsEnd(s, ie + 2) ELSE ie

\* the end of the match of \s* at p (p - 1 if there is no blank)
RECURSIVE spacesEnd(_, _)
spacesEnd(s, p) == IF p <= Len(s) /\ s[p] = " " THEN spacesEnd(s, p + 1) ELSE p - 1

\* the currency patterns of parsePrice, in order: a number followed by the
\* sign, the sign followed by a number, or a number alone
PricePatterns ==
  << [shape |-> "numSign", sign |-> <<"<lira>">>, ignoreCase |-> FALSE, currency |-> "TRY"],
     [shape |-> "signNum", sign |-> <<"<lira>">>, ignoreCase |-> FALSE, currency |-> "TRY"],
     [shape |-> "numSign", sign |-> <<"t", "l">>, ignoreCase |-> TRUE, currency |-> "TRY"],
     [shape |-> "signNum", sign |-> <<"t", "l">>, ignoreCase |-> TRUE, currency |-> "TRY"],
     [shape |-> "numSign", sign |-> <<"$">>, ignoreCase |-> FALSE, currency |-> "USD"],
     [shape |-> "signNum", sign |-> <<"$">>, ignoreCase |-> FALSE, currency |-> "USD"],
     [shape |-> "numSign", sign |-> <<"<euro>">>, ignoreCase |-> FALSE, currency |-> "EUR"],
     [shape |-> "signNum", sign |-> <<"<euro>">>, ignoreCase |-> FALSE, currency |-> "EUR"],
     [shape |-> "num", sign |-> <<>>, ignoreCase |-> FALSE, currency |-> "TRY"] >>

\* the capture group 1 of the pattern pat matched at position p of s, or <<>>
\* if the pattern does not match there
captureAt(s, pat, p) ==
  LET text == IF pat.ignoreCase THEN toLowerCase(s) ELSE s
  IN IF pat.shape = "num"
     THEN IF s[p] \in Digit THEN SubSeq(s, p, numberEnd(s, p)) ELSE <<>>
     ELSE IF pat.shape = "numSign"
     THEN IF s[p] \notin Digit THEN <<>>
          ELSE LET long == numberEnd(s, p)
                   short == digitsEnd(s, p)
               IN IF startsAt(text, pat.sign, spacesEnd(s, long + 1) + 1)
                  THEN SubSeq(s, p, long)
                  ELSE IF startsAt(text, pat.sign, spacesEnd(s, short + 1) + 1)
                  THEN SubSeq(s, p, short)
                  ELSE <<>>
     ELSE IF ~startsAt(text, pat.sign, p) THEN <<>>
          ELSE LET q == spacesEnd(s, p + Len(pat.sign)) + 1
               IN IF q <= Len(s) /\ s[q] \in Digit THEN SubSeq(s, q, numberEnd(s, q)) ELSE <<>>

\* regex.exec: the capture of the leftmost match of pat in s, <<>> if none
RECURSIVE execFrom(_, _, _)
execFrom(s, pat, p) ==
  IF p > Len(s) THEN <<>>
  ELSE IF captureAt(s, pat, p) /= <<>> THEN captureAt(s, pat, p)
  ELSE execFrom(s, pat, p + 1)

RECURSIVE firstPattern(_, _)
firstPattern(cleaned, k) ==
  IF k > Len(PricePatterns) THEN [price |-> [nan |-> FALSE, num |-> 0, den |-> 1], currency |-> "TRY"]
  ELSE LET capture == execFrom(cleaned, PricePatterns[k], 1)
       IN IF capture /= <<>>
          THEN [price |-> parseFloat(replaceFirstComma(capture)),
                currency |-> PricePatterns[k].currency]
          ELSE firstPattern(cleaned, k + 1)

\* parsePrice of the helpers, used by FlareSolverrScraper
parsePrice(priceText) ==
  IF priceText = <<>> THEN [price |-> [nan |-> FALSE, num |-> 0, den |-> 1], currency |-> "TRY"]
  ELSE firstPattern(trim(collapseSpaces(priceText)), 1)

\* N8NClient.parsePrice: the same patterns in the same order
n8nParsePrice(priceText) ==
  IF priceText = <<>> THEN [price |-> [nan |-> FALSE, num |-> 0, den |-> 1], currency |-> "TRY"]
  ELSE firstPattern(trim(collapseSpaces(priceText)), 1)

\* ------------------------------------------------- extraction of the items
\* A container element is what the extractors read from it: titles[j] and
\* prices[j] are the text of the first descendant matching the j-th title
\* and price selector of the profile (<<>> if there is none), attr is the
\* first non-empty attribute among title, alt and data-title, text is the
\* element's textContent.

\* the first selector's text that is not blank, trimmed; <<>> if none
RECURSIVE firstText(_)
firstText(texts) ==
  IF texts = <<>> THEN <<>>
  ELSE IF trim(Head(texts)) /= <<>> THEN trim(Head(texts))
  ELSE firstText(Tail(texts))

\* the units of the text fallback, /(\d+(?:[.,]\d+)?)\s*(tl|<lira>|try|usd|eur)/i
FallbackUnits == <<<<"t", "l">>, <<"<lira>">>, <<"t", "r", "y">>, <<"u", "s", "d">>, <<"e", "u", "r">>>>

\* the end of the unit that starts at position p of the lower-cased text (0 if none)
unitEnd(lower, p) ==
  IF \E u \in 1..Len(FallbackUnits) : startsAt(lower, FallbackUnits[u], p)
  THEN LET u == CHOOSE v \in 1..Len(FallbackUnits) :
                  /\ startsAt(lower, FallbackUnits[v], p)
                  /\ \A w \in 1..(v - 1) : ~startsAt(lower, FallbackUnits[w], p)
       IN p + Len(FallbackUnits[u]) - 1
  ELSE 0

\* the end of the fallback pattern matched at p (0 if it does not match there)
fallbackEndAt(text, p) ==
  IF text[p] \notin Digit THEN 0
  ELSE LET lower == toLowerCase(text)
           long == unitEnd(lower, spacesEnd(text, numberEnd(text, p) + 1) + 1)
           short == unitEnd(lower, spacesEnd(text, digitsEnd(text, p) + 1) + 1)
       IN IF long > 0 THEN long ELSE short

\* text.match(...): the leftmost match as [from, to], or [from |-> 0] if none
RECURSIVE fallbackMatch(_, _)
fallbackMatch(text, p) ==
  IF p > Len(text) THEN [from |-> 0, to |-> 0]
  ELSE IF fallbackEndAt(text, p) > 0 THEN [from |-> p, to |-> fallbackEndAt(text, p)]
  ELSE fallbackMatch(text, p + 1)

\* the in-page sanitizeText: white space collapsed, trimmed, cut at 200
inPageSanitizeText(text) == substring0(trim(collapseSpaces(text)), 200)

\* the in-page detectRegion
inPageDetectRegion(url, title) ==
  LET t == toLowerCase(title)
  IN IF includes(url, <<"g", "l", "o", "b", "a", "l">>) \/ includes(t, <<"g", "l", "o", "b", "a", "l">>) THEN "Global"
     ELSE IF includes(url, <<"e", "u">>) \/ includes(url, <<"e", "u", "r", "o", "p", "e">>) \/ includes(t, <<"e", "u">>) THEN "EU"
     ELSE IF includes(url, <<"n", "a">>) \/ includes(url, <<"a", "m", "e", "r", "i", "c", "a">>) \/ includes(t, <<"n", "a">>) THEN "US"
     ELSE "TR"

\* the in-page extractGameSlug
inPageExtractGameSlug(url, title) ==
  LET t == toLowerCase(title)
  IN IF includes(url, <<"p", "u", "b", "g">>) \/ includes(t, <<"p", "u", "b", "g">>) THEN "pubg"
     ELSE IF includes(url, <<"l", "o", "l">>) \/ includes(url, <<"l", "e", "g", "e", "n", "d", "s">>) \/ includes(t, <<"l", "e", "g", "e", "n", "d", "s">>)
          THEN "lol"
     ELSE IF includes(url, <<"v", "a", "l", "o", "r", "a", "n", "t">>) \/ includes(t, <<"v", "a", "l", "o", "r", "a", "n", "t">>) THEN "valorant"
     ELSE IF includes(url, <<"m", "o", "b", "i", "l", "e", "-", "l", "e", "g", "e", "n", "d", "s">>) \/ includes(t, <<"m", "o", "b", "i", "l", "e", " ", "l", "e", "g", "e", "n", "d", "s">>)
          THEN "mobile-legends"
     ELSE IF includes(url, <<"f", "i", "r", "e">>) \/ includes(t, <<"f", "i", "r", "e">>) THEN "free-fire"
     ELSE "unknown"

\* the title and the price text the in-page loop body reads from one element:
\* the selectors first, then the text fallback
inPageTexts(el) ==
  LET title == firstText(el.titles)
      priceText == firstText(el.prices)
      m == fallbackMatch(el.text, 1)
  IN IF (title = <<>> \/ priceText = <<>>) /\ m.from > 0
     THEN [title |-> IF title = <<>>
                     THEN substring0(trim(SubSeq(el.text, 1, m.from - 1)), 100)
                     ELSE title,
           priceText |-> SubSeq(el.text, m.from, m.to)]
     ELSE [title |-> title, priceText |-> priceText]

\* variant: the title needs no minimum length
titleLongEnoughAny(title) == TRUE

\* `title.length > 3` of the in-page loop body
titleLongEnough(title) == Len(title) > 3

\* the items (none or one) the in-page loop body pushes for one element
inPageItem(url, domain, el) ==
  LET t == inPageTexts(el)
      parsed == inPageParsePrice(t.priceText)
  IN IF t.title /= <<>> /\ t.priceText /= <<>> /\ titleLongEnough(t.title)
        /\ isValidPrice(parsed.price)
     THEN << [title |-> inPageSanitizeText(t.title), price |-> t.priceText,
              currency |-> parsed.currency, region |-> inPageDetectRegion(url.href, t.title),
              url |-> url, siteName |-> domain,
              gameSlug |-> inPageExtractGameSlug(url.href, t.title)] >>
     ELSE <<>>

\* `if (index > 50) return`: the elements of one selector that are examined
examined(index) == ~(index > ElementLimit)

\* containers.forEach of one container selector
RECURSIVE inPageForEach(_, _, _, _)
inPageForEach(url, domain, containers, k) ==
  IF k > Len(containers) THEN <<>>
  ELSE (IF examined(k - 1) THEN inPageItem(url, domain, containers[k]) ELSE <<>>)
         \o inPageForEach(url, domain, containers, k + 1)

\* variant: the loop stops at the first selector that matches an element
stopAfterSelectorOnMatch(containers, found) == containers /= <<>>

\* `if (results.length > 0) break` at the end of the loop over the selectors
stopAfterSelector(containers, found) == found /= <<>>

\* the loop over the container selectors from the k-th on; dom[k] holds the
\* elements that the k-th container selector matches
RECURSIVE inPageFrom(_, _, _, _)
inPageFrom(url, domain, dom, k) ==
  IF k > Len(dom) THEN [items |-> <<>>, evaluated |-> Len(dom)]
  ELSE LET containers == dom[k]
           found == inPageForEach(url, domain, containers, 1)
       IN IF containers /= <<>> /\ stopAfterSelector(containers, found)
          THEN [items |-> found, evaluated |-> k]
          ELSE inPageFrom(url, domain, dom, k + 1)

\* the function that page.evaluate runs in the page
evaluateInPage(url, domain, dom) == inPageFrom(url, domain, dom, 1)

\* ---- the server-side parsing of FlareSolverrScraper
\* \w of a JS regular expression
WordChar ==
  Digit \cup {"_"} \cup
  {"a", "b", "c", "d", "e", "f", "g", "h", "i", "j", "k", "l", "m",
   "n", "o", "p", "q", "r", "s", "t", "u", "v", "w", "x", "y", "z",
   "A", "B", "C", "D", "E", "F", "G", "H", "I", "J", "K", "L", "M",
   "N", "O", "P", "Q", "R", "S", "T", "U", "V", "W", "X", "Y", "Z"}

\* sanitizeText of the helpers: white space collapsed, every character
\* outside [\w\s\-_.<lira>$<euro>] removed, trimmed
sanitizeText(text) ==
  trim(SelectSeq(collapseSpaces(text),
                 LAMBDA c : c \in WordChar \cup {" ", "-", ".", "<lira>", "$", "<euro>"}))

\* gameKeywords of extractGameSlug, in the order of the object literal
GameKeywords ==
  << [slug |-> "pubg", keywords |-> {<<"p", "u", "b", "g">>, <<"m", "o", "b", "i", "l", "e">>, <<"u", "c">>}],
     [slug |-> "mobile-legends", keywords |-> {<<"m", "o", "b", "i", "l", "e">>, <<"l", "e", "g", "e", "n", "d", "s">>, <<"m", "l", "b", "b">>, <<"e", "l", "m", "a", "s">>}],
     [slug |-> "valorant", keywords |-> {<<"v", "a", "l", "o", "r", "a", "n", "t">>, <<"v", "p">>, <<"p", "o", "i", "n", "t", "s">>}],
     [slug |-> "lol", keywords |-> {<<"l", "o", "l">>, <<"l", "e", "a", "g", "u", "e">>, <<"l", "e", "g", "e", "n", "d", "s">>, <<"r", "p">>, <<"r", "i", "o", "t">>}],
     [slug |-> "free-fire", keywords |-> {<<"f", "r", "e", "e">>, <<"f", "i", "r", "e">>, <<"g", "a", "r", "e", "n", "a">>}],
     [slug |-> "genshin-impact", keywords |-> {<<"g", "e", "n", "s", "h", "i", "n">>, <<"i", "m", "p", "a", "c", "t">>, <<"g", "e", "n", "e", "s", "i", "s">>}],
     [slug |-> "honor-of-kings", keywords |-> {<<"h", "o", "n", "o", "r">>, <<"k", "i", "n", "g", "s">>, <<"j", "e", "t", "o", "n">>}],
     [slug |-> "roblox", keywords |-> {<<"r", "o", "b", "l", "o", "x">>, <<"r", "o", "b", "u", "x">>}],
     [slug |-> "steam", keywords |-> {<<"s", "t", "e", "a", "m">>, <<"w", "a", "l", "l", "e", "t">>, <<"c", "u", "z", "d", "a", "n">>}],
     [slug |-> "razer-gold", keywords |-> {<<"r", "a", "z", "e", "r">>, <<"g", "o", "l", "d">>}] >>

\* extractGameSlug of the helpers
extractGameSlug(url, title) ==
  LET combined == toLowerCase(url) \o <<" ">> \o toLowerCase(title)
      hit(k) == \E w \in GameKeywords[k].keywords : includes(combined, w)
  IN IF \E k \in 1..Len(GameKeywords) : hit(k)
     THEN GameKeywords[CHOOSE k \in 1..Len(GameKeywords) :
                         hit(k) /\ \A j \in 1..(k - 1) : ~hit(j)].slug
     ELSE "unknown"

\* the title and the price text the cheerio loop body reads from one element:
\* the selectors, and for the title the attribute fallback
cheerioTexts(el) ==
  LET title == firstText(el.titles)
  IN [title |-> IF title = <<>> THEN trim(el.attr) ELSE title,
      priceText |-> firstText(el.prices)]

\* the items (none or one) the cheerio loop body pushes for one element
cheerioItem(url, domain, el) ==
  LET t == cheerioTexts(el)
      parsed == parsePrice(t.priceText)
  IN IF t.title /= <<>> /\ t.priceText /= <<>> /\ isValidPrice(parsed.price)
     THEN << [title |-> sanitizeText(t.title), price |-> t.priceText,
              currency |-> parsed.currency, region |-> "TR",
              url |-> url, siteName |-> domain,
              gameSlug |-> extractGameSlug(url.href, t.title)] >>
     ELSE <<>>

\* $(config.selectors.container): the elements matching any of the container
\* selectors (taken in the order of the selectors)
RECURSIVE cheerioSelect(_)
cheerioSelect(dom) == IF dom = <<>> THEN <<>> ELSE Head(dom) \o cheerioSelect(Tail(dom))

RECURSIVE cheerioEach(_, _, _)
cheerioEach(url, domain, containers) ==
  IF containers = <<>> THEN <<>>
  ELSE cheerioItem(url, domain, Head(containers)) \o cheerioEach(url, domain, Tail(containers))

\* the items FlareSolverrScraper.scrapeUrl builds from the returned HTML
cheerioParse(url, domain, dom) == cheerioEach(url, domain, cheerioSelect(dom))

\* ------------------------------------------- extraction applied on its own
\* the pages: their URL (href is the URL as a string) and their elements
PageUrls ==
  { [parses |-> TRUE, hostname |-> <<"www", "turkpin", "com">>,
     href |-> <<"h", "t", "t", "p", "s", ":", "/", "/", "w", "w", "w", ".", "t", "u", "r", "k", "p", "i", "n", ".", "c", "o", "m", "/", "p", "u", "b", "g">>],
    [parses |-> TRUE, hostname |-> <<"liderepin", "com">>,
     href |-> <<"h", "t", "t", "p", "s", ":", "/", "/", "l", "i", "d", "e", "r", "e", "p", "i", "n", ".", "c", "o", "m", "/", "g", "l", "o", "b", "a", "l", "/", "v", "p">>] }

TitleTexts == {<<>>, <<"U", "C">>, <<"6", "0", " ", "U", "C">>, <<"E", "U", " ", "G", "o", "l", "d", " ", "(", "x", "2", ")">>, <<" ", "G", "l", "o", "b", "a", "l", " ", " ", "P", "a", "s", "s", " ">>}
PriceTexts == {<<>>, <<"1", "9", ",", "9", "9", " ", "T", "L">>, <<"$", "1", "9", ".", "9", "9">>, <<"1", "9", " ", "U", "S", "D">>, <<"0", " ", "T", "L", " ", "5">>, <<"B", "e", "d", "a", "v", "a">>, <<"1", "5", "0", "0", "0", "0", "0", " ", "T", "L">>}
AttrTexts == {<<>>, <<"E", "l", "m", "a", "s", " ", "P", "a", "k", "e", "t", "i">>}
ContainerTexts == {<<>>, <<"E", "l", "m", "a", "s", " ", "5", " ", "T", "L">>}

Elements ==
  [titles : {<<t>> : t \in TitleTexts}, prices : {<<p>> : p \in PriceTexts},
   attr : AttrTexts, text : ContainerTexts]
    \cup [titles : {<<<<>>, <<"6", "0", " ", "U", "C">>>>, <<<<" ">>, <<"E", "p", "i", "n">>>>},
          prices : {<<<<>>, <<"5", " ", "<", "l", "i", "r", "a", ">">>>>, <<<<"<", "e", "u", "r", "o", ">", " ", "7", ",", "5">>, <<"9", " ", "T", "L">>>>},
          attr : {<<>>}, text : {<<>>}]

\* an element that both extractors turn into an item
GoodElement == [titles |-> <<<<"6", "0", " ", "U", "C">>>>, prices |-> <<<<"1", "9", ",", "9", "9", " ", "T", "L">>>>, attr |-> <<>>, text |-> <<>>]

\* elements for the pages with two container selectors
FewElements ==
  { GoodElement,
    [titles |-> <<<<"6", "0", " ", "U", "C">>>>, prices |-> <<<<"B", "e", "d", "a", "v", "a">>>>, attr |-> <<>>, text |-> <<>>],
    [titles |-> <<<<"U", "C">>>>, prices |-> <<<<"5", " ", "<", "l", "i", "r", "a", ">">>>>, attr |-> <<>>, text |-> <<>>] }

\* dom[k]: the elements that the k-th container selector of the profile
\* matches; the pages with one element or with two container selectors
SmallDoms ==
  { <<<<el>>>> : el \in Elements }
    \cup { <<a, b>> : a, b \in {<<>>} \cup { <<el>> : el \in FewElements } }

\* and the pages with many elements under one container selector
Doms == SmallDoms \cup { <<[k \in 1..n |-> GoodElement]>> : n \in (ElementLimit - 1)..MaxMatched }

\* the function of page.evaluate applied to one page; yields[k] is the number
\* of items the elements of the k-th container selector give
ProbeEvaluateInPage ==
  /\ pc = "idle"
  /\ probe = NoProbe
  /\ \E u \in PageUrls, dom \in Doms :
       \E r \in {evaluateInPage(u, extractDomain(u), dom)} :
         probe' = [fn |-> "evaluateInPage", url |-> u, dom |-> dom, items |-> r.items,
                   evaluated |-> r.evaluated,
                   yields |-> [k \in 1..Len(dom) |->
                                 Len(inPageForEach(u, extractDomain(u), dom[k], 1))]]
  /\ UNCHANGED <<orchVars, aux>>

\* one element given to the loop body of one extractor: the texts it reads,
\* whether its own parser finds the price valid, and the items it pushes
ProbeElement ==
  /\ pc = "idle"
  /\ probe = NoProbe
  /\ \E u \in PageUrls, el \in Elements, extractor \in {"puppeteer", "flaresolverr"} :
       LET domain == extractDomain(u)
           t == IF extractor = "puppeteer" THEN inPageTexts(el) ELSE cheerioTexts(el)
           price == IF extractor = "puppeteer" THEN inPageParsePrice(t.priceText).price
                    ELSE parsePrice(t.priceText).price
       IN probe' = [fn |-> "element", extractor |-> extractor, url |-> u, el |-> el,
                    title |-> t.title, priceText |-> t.priceText,
                    valid |-> positive(price) /\ belowMillion(price),
                    items |-> IF extractor = "puppeteer" THEN inPageItem(u, domain, el)
                              ELSE cheerioItem(u, domain, el)]
  /\ UNCHANGED <<orchVars, aux>>

\* the same page given to both extractors
ProbeBothExtractors ==
  /\ pc = "idle"
  /\ probe = NoProbe
  /\ \E u \in PageUrls, dom \in SmallDoms :
       probe' = [fn |-> "extractors", url |-> u, dom |-> dom,
                 inPage |-> evaluateInPage(u, extractDomain(u), dom).items,
                 cheerio |-> cheerioParse(u, extractDomain(u), dom)]
  /\ UNCHANGED <<orchVars, aux>>

\* the price records sendBatchData builds from the items of one outcome
RECURSIVE pricesOfItems(_)
pricesOfItems(items) ==
  IF items = <<>> THEN <<>>
  ELSE LET item == Head(items)
           parsed == n8nParsePrice(item.price)
       IN (IF positive(parsed.price)
           THEN << [price |-> parsed.price, currency |-> parsed.currency,
                    region |-> item.region, product_name |-> item.title, url |-> item.url] >>
           ELSE <<>>) \o pricesOfItems(Tail(items))

\* batchResult.results.forEach of sendBatchData
RECURSIVE pricesOfResults(_)
pricesOfResults(rs) ==
  IF rs = <<>> THEN <<>>
  ELSE (IF Head(rs).success /\ Len(Head(rs).items) > 0
        THEN pricesOfItems(Head(rs).items) ELSE <<>>) \o pricesOfResults(Tail(rs))

\* the payload sendBatchData posts to the webhook
payloadOf(br) ==
  [items |-> pricesOfResults(br.results),
   metadata |-> [totalUrls |-> br.totalUrls, successCount |-> br.successCount,
                 failedCount |-> br.failedCount, totalItems |-> br.totalItems]]

\* the outcome scrapeUrl returns when every call succeeds and extraction
\* gives the items
outcomeWithItems(extractor, url, items) ==
  IF extractor = "puppeteer"
  THEN [success |-> Len(items) > 0, url |-> url, items |-> items,
        error |-> IF Len(items) = 0 THEN "No items found with Puppeteer" ELSE Undefined,
        siteName |-> extractDomain(url)]
  ELSE [success |-> TRUE, url |-> url, items |-> items, error |-> Null,
        siteName |-> extractDomain(url)]

\* one page scraped by one extractor, the batch made of its outcome and the
\* payload sendBatchData builds from the batch; reparsed[k] is the currency
\* sendBatchData reads from the price text of the k-th item
ProbeSendBatchData ==
  /\ pc = "idle"
  /\ probe = NoProbe
  /\ \E u \in PageUrls, dom \in SmallDoms, extractor \in {"puppeteer", "flaresolverr"} :
       \E items \in {IF extractor = "puppeteer"
                      THEN evaluateInPage(u, extractDomain(u), dom).items
                      ELSE cheerioParse(u, extractDomain(u), dom)} :
         \E br \in {createBatchResult(<<u>>, <<outcomeWithItems(extractor, u, items)>>)} :
           probe' = [fn |-> "sendBatchData", extractor |-> extractor, batch |-> br,
                     payload |-> payloadOf(br),
                     reparsed |-> [k \in 1..Len(items) |->
                                     n8nParsePrice(items[k].price).currency]]
  /\ UNCHANGED <<orchVars, aux>>

NextItems ==
  \/ ProbeEvaluateInPage
  \/ ProbeElement
  \/ ProbeBothExtractors
  \/ ProbeSendBatchData

SpecItems == Init /\ [][NextItems]_vars

\* ================================================================== claims
BypassDomains == { <<"oyuneks", "com">>, <<"liderepin", "com">> }

RECURSIVE sumSucceededItems(_)
sumSucceededItems(rs) ==
  IF rs = <<>> THEN 0
  ELSE (IF Head(rs).success THEN Len(Head(rs).items) ELSE 0) + sumSucceededItems(Tail(rs))

Count(seq, P(_)) == Cardinality({k \in 1..Len(seq) : P(seq[k])})

\* C1: every BatchResult returned by scrapeUrls has
\* successCount + failedCount == totalUrls, the number of requested URLs,
\* also when the progress callback throws.
C1_CountsAddUpToRequested ==
  returned /= NoResult =>
    returned.successCount + returned.failedCount = returned.totalUrls

\* C2: totalItems of a returned BatchResult is the sum of items.length over
\* its succeeded outcomes, and every failed outcome, whichever extractor or
\* catch block produced it, carries an empty item list.
C2_TotalItemsOverSucceeded ==
  /\ \A k \in 1..Len(results) : ~results[k].success => results[k].items = <<>>
  /\ returned /= NoResult =>
       /\ returned.totalItems = sumSucceededItems(returned.results)
       /\ \A k \in 1..Len(returned.results) :
            ~returned.results[k].success => returned.results[k].items = <<>>

C2_Witness ==
  /\ returned /= NoResult
  /\ returned.totalItems > 0
  /\ returned.failedCount > 0

\* C3: a URL that fails or throws never stops the batch: when scrapeUrls has
\* returned, every position was dispatched to an extractor and every URL has
\* as many outcomes in the report as it has positions in the input.
C3_BatchGoesOn ==
  pc = "done" =>
    /\ \A j \in 1..Len(urls) : \E k \in 1..Len(dispatched) : dispatched[k].pos = j
    /\ \A u \in Urls :
         Count(returned.results, LAMBDA r : r.url = u) >= Count(urls, LAMBDA v : v = u)

C3_Witness ==
  /\ pc = "done"
  /\ Len(urls) = 2
  /\ Len(returned.results) = 3
  /\ ~returned.results[1].success
  /\ ~returned.results[2].success
  /\ returned.results[3].url = urls[2]
  /\ returned.results[3].success

\* C4: the bypass extractor is invoked iff the URL's domain is oyuneks.com or
\* liderepin.com; every other domain (registered, unregistered or empty) goes
\* to the rendering extractor, and each position is dispatched exactly once.
C4_DispatchByDomain ==
  /\ \A k \in 1..Len(dispatched) :
       /\ dispatched[k].pos = k
       /\ dispatched[k].extractor \in {"flaresolverr", "puppeteer"}
       /\ dispatched[k].extractor = "flaresolverr"
            <=> extractDomain(urls[k]) \in BypassDomains
  /\ Len(dispatched) = IF pc \in {"extract", "callback", "sleep"} THEN i + 1 ELSE i

C4_Witness ==
  /\ pc = "done"
  /\ Len(dispatched) = 2
  /\ dispatched[1].extractor = "flaresolverr"
  /\ urls[1].hostname = <<"www", "oyuneks", "com">>
  /\ dispatched[2].extractor = "puppeteer"
  /\ dispatched[2].config.generic
  /\ extractDomain(urls[2]) = <<>>

\* C5: scrapeUrls never propagates a fault: no exception leaves the call, and
\* when it completes it has returned a BatchResult whose failures are failed
\* outcomes and error strings.
C5_NoFaultEscapes ==
  /\ pc /= "thrown"
  /\ pc = "done" =>
       /\ returned /= NoResult
       /\ Len(returned.errors) = returned.failedCount
       /\ returned.failedCount = Count(returned.results, LAMBDA r : ~r.success)

C5_Witness ==
  /\ pc = "done"
  /\ hasCallback
  /\ Len(returned.results) > Len(urls)
  /\ delivery = "failed"

\* C6: the results of a BatchResult hold exactly one outcome per requested
\* URL, in input order, also when the progress callback throws after an
\* outcome has been appended.
C6_OneOutcomePerUrlInOrder ==
  returned /= NoResult =>
    /\ Len(returned.results) = Len(urls)
    /\ \A k \in 1..Len(returned.results) : k <= Len(urls) => returned.results[k].url = urls[k]

C8_EmptyResultAsymmetry ==
  /\ (/\ probe.fn = "puppeteer"
      /\ ~probe.env.launch.thrown /\ ~probe.env.newPage.thrown
      /\ ~probe.env.nav2.thrown /\ ~probe.env.pageClose.thrown)
       => /\ probe.out.success = (probe.env.els > 0)
          /\ Len(probe.out.items) = probe.env.els
          /\ probe.env.els = 0 => probe.out.error = "No items found with Puppeteer"
  /\ (/\ probe.fn = "flaresolverr"
      /\ ~probe.env.get.thrown /\ probe.env.status = "ok" /\ ~probe.env.parse.thrown)
       => /\ probe.out.success
          /\ Len(probe.out.items) = probe.env.els

C8_Witness ==
  /\ probe.fn = "flaresolverr"
  /\ probe.out.success
  /\ probe.out.items = <<>>

\* C9: at the end of scrapeUrls, sendBatchData is started exactly once if
\* totalItems > 0 and not at all if totalItems == 0.
C9_SendOnlyWithItems ==
  /\ pc /= "done" => sendCalls = 0
  /\ pc = "done" => sendCalls = (IF returned.totalItems > 0 THEN 1 ELSE 0)

C9_Witness ==
  /\ pc = "done"
  /\ returned.successCount > 0
  /\ returned.totalItems = 0
  /\ sendCalls = 0

\* C10: delivery is fire-and-forget: scrapeUrls has returned its BatchResult
\* while the delivery is still pending, and the returned BatchResult stays
\* the same whether the delivery succeeds, fails or times out.
C10_FireAndForget ==
  /\ [](delivery = "pending" => (pc = "done" /\ returned /= NoResult))
  /\ [][returned /= NoResult => returned' = returned]_vars

C10_Witness ==
  /\ delivery = "failed"
  /\ returned /= NoResult
  /\ returned.totalItems > 0

\* C11: sendBatchData posts with one retry: when the first POST attempt fails
\* a second attempt is made, and no call makes more than two POST attempts.
C11_OneRetry ==
  /\ n8n.posts <= 2
  /\ (n8n.pc = "resolved" /\ n8n.responses /= <<>> /\ n8n.responses[1] /= "2xx")
       => n8n.posts = 2

\* C12: sendBatchData returns true iff a POST attempt received a 2xx
\* response; for a non-2xx response, a transport error, a timeout or an error
\* while building the payload it returns false, and it never rejects.
C12_TrueIffDelivered ==
  /\ n8n.pc /= "rejected"
  /\ n8n.pc = "resolved" =>
       /\ n8n.result \in BOOLEAN
       /\ n8n.result = (\E k \in 1..Len(n8n.responses) : n8n.responses[k] = "2xx")

C12_Witness ==
  /\ n8n.pc = "resolved"
  /\ n8n.result = FALSE
  /\ n8n.responses = <<"non2xx">>
  /\ n8n.batch.totalItems > 0

\* C13: a POST /scrape/start that arrives while scrapingStatus.isRunning is
\* true is answered with the current status and leaves scrapingStatus,
\* failedUrls, lastBatchResult and the set of background jobs unchanged; at
\* most one background job is running at any time, and isRunning is true
\* exactly while one is.
C13_SecondStartRejected ==
  [][/\ Cardinality(RunningJobs') <= 1
     /\ scrapingStatus'.isRunning <=> RunningJobs' /= {}
     /\ (lastReply' = "alreadyRunning" /\ lastReply /= "alreadyRunning")
          => /\ scrapingStatus.isRunning
             /\ UNCHANGED <<scrapingStatus, failedUrls, lastBatchResult, jobs>>
     /\ Len(jobs') > Len(jobs) => (~scrapingStatus.isRunning /\ lastReply' = "started")]_vars

C13_Witness ==
  /\ lastReply = "alreadyRunning"
  /\ \E j \in RunningJobs : jobs[j].pc = "scraping" /\ Len(jobs[j].results) = 1

\* C14: at most one scrapeUrls invocation is in progress in the process,
\* counting those of POST /scrape/sync and those of POST /scrape/start.
C14_OneScrapeInProcess == ScrapesInProgress <= 1

\* C15: a background job started with a resumeUrl ends in normal completion
\* (progress 100), never in the error state.
C15_ResumeUrlJobCompletes ==
  \A j \in 1..Len(jobs) : jobs[j].resumeUrl => jobs[j].pc /= "error"

\* C16: once the time elapsed since initialize() exceeds maxExecutionTime,
\* scrapeUrls dispatches no further URL to an extractor.
C16_NoDispatchAfterMaxExecutionTime ==
  [][expired => Len(dispatched') <= Len(dispatched)]_vars

\* C17: one orchestrator launches a browser at most once, however many
\* rendered URLs it scrapes.
C17_OneBrowserLaunch == pup.launches <= 1

\* C18: when scrapeUrl returns and a page was opened, page.close() was
\* called on it, whatever the exit path.
C18_PageCloseAttempted ==
  (pup.pc = "returned" /\ pup.page) => pup.pageCloseCalls >= 1

C18_Witness ==
  /\ pup.pc = "returned" /\ pup.page
  /\ pup.errAt = "nav2" /\ pup.pageCloseCalls = 1 /\ ~pup.extracted

\* C20: a failed primary navigation is followed by exactly one fallback
\* navigation; if the fallback succeeds the scrape goes on to extraction, if
\* it fails the outcome is failed with the fallback's error text and nothing
\* is extracted; a navigation failure is the outcome's error only when the
\* fallback failed; there are never more than two navigation attempts.
C20_OneFallbackNavigation ==
  /\ pup.navAttempts <= 2
  /\ pup.navAttempts = 2 => pup.nav1.thrown
  /\ (pup.nav1.thrown /\ pup.pc /= "nav1") => pup.navAttempts = 2
  /\ pup.errAt /= "nav1"
  /\ (pup.errAt = "nav2") <=> pup.nav2.thrown
  /\ (pup.nav1.thrown /\ ~pup.nav2.thrown /\ pup.pc = "returned" /\ pup.errAt /= "wait")
       => pup.extracted
  /\ (pup.nav2.thrown /\ pup.pc = "returned")
       => /\ ~pup.extracted
          /\ pup.out = [success |-> FALSE, items |-> 0,
                        error |-> errorMessage(pup.nav2, "Unknown Puppeteer error")]

C20_Witness ==
  /\ pup.pc = "returned" /\ pup.nav1.thrown /\ ~pup.nav2.thrown
  /\ pup.navAttempts = 2 /\ pup.extracted /\ pup.out.success

\* C19: an outcome that the extractor returns with success == true and n
\* items is recorded by scrapeUrlHttp with success == true and the same
\* items, whatever the cleanup after the extractor call does.
C19_SuccessRecordedUnchanged ==
  (probe.fn = "scrapeUrlHttp" /\ probe.extractorOut.success)
    => /\ probe.out.success
       /\ probe.out.items = probe.extractorOut.items

\* C21: the in-page loop stops at the first container selector that matches
\* an element: no selector after it is evaluated.
C21_StopsAtFirstMatch ==
  probe.fn = "evaluateInPage" =>
    \A k \in 1..Len(probe.dom) : probe.dom[k] /= <<>> => probe.evaluated <= k

\* C21 as amended: the in-page loop stops at the first container selector
\* whose elements give an item; a selector that matches nothing or whose
\* elements give no item is followed by the next one, and the items returned
\* are those of the selector the loop stopped at.
C21_StopsAtFirstYield ==
  probe.fn = "evaluateInPage" =>
    /\ \A k \in 1..Len(probe.dom) : probe.yields[k] > 0 => probe.evaluated <= k
    /\ \A k \in 1..Len(probe.dom) :
         (\A j \in 1..k : probe.yields[j] = 0) => probe.evaluated >= k
    /\ Len(probe.items) = IF probe.evaluated = 0 THEN 0 ELSE probe.yields[probe.evaluated]

C21_Witness ==
  /\ probe.fn = "evaluateInPage"
  /\ Len(probe.dom) = 2 /\ probe.dom[1] /= <<>> /\ probe.yields[1] = 0
  /\ probe.evaluated = 2 /\ Len(probe.items) = 1

\* C22: a page never yields more than 50 items.
C22_AtMostFiftyItems ==
  probe.fn = "evaluateInPage" => Len(probe.items) <= 50

\* C23: an element gives an item only if its extracted title is longer than
\* 3 characters, its price text is not empty and the price is valid.
C23_ItemsPassTheFilters ==
  (probe.fn = "element" /\ probe.items /= <<>>) =>
    /\ Len(probe.title) > 3
    /\ probe.priceText /= <<>>
    /\ probe.valid

\* C24: on the same page both extractors emit the same sequence of items,
\* with the same title, price text, currency, region and game category.
C24_ExtractorsAgree ==
  probe.fn = "extractors" =>
    LET view(items) == [k \in 1..Len(items) |->
                          [title |-> items[k].title, price |-> items[k].price,
                           currency |-> items[k].currency, region |-> items[k].region,
                           gameSlug |-> items[k].gameSlug]]
    IN view(probe.inPage) = view(probe.cheerio)

\* C27: every item has a region among TR, EU, US, GLOBAL and a currency among
\* TRY, USD, EUR.
C27_RegionAndCurrencyEnums ==
  probe.fn = "element" =>
    \A k \in 1..Len(probe.items) :
      /\ probe.items[k].region \in {"TR", "EU", "US", "GLOBAL"}
      /\ probe.items[k].currency \in {"TRY", "USD", "EUR"}

\* C26: the payload holds one price record per item of the succeeded
\* outcomes: payload.items.length == metadata.totalItems.
C26_PayloadHoldsEveryItem ==
  probe.fn = "sendBatchData" =>
    Len(probe.payload.items) = probe.payload.metadata.totalItems

\* C28: the currency sendBatchData reads from an item's price text is the
\* currency the extractor stored on the item.
C28_CurrencySurvivesDelivery ==
  probe.fn = "sendBatchData" =>
    \A r \in 1..Len(probe.batch.results) :
      probe.batch.results[r].success =>
        \A k \in 1..Len(probe.batch.results[r].items) :
          probe.reparsed[k] = probe.batch.results[r].items[k].currency

\* C25: FlareSolverrScraper.scrapeUrl sends sessions.create and then
\* request.get whether or not the session could be created, and its outcome
\* is failed exactly when request.get fails, answers a status other than
\* "ok", or parsing throws.
C25_SessionFailureNotFatal ==
  probe.fn = "flareCalls" =>
    /\ probe.calls = <<"sessions.create", "request.get">>
    /\ ~probe.out.success <=>
         (probe.env.get.thrown \/ probe.env.status /= "ok" \/ probe.env.parse.thrown)

C25_Witness ==
  /\ probe.fn = "flareCalls"
  /\ probe.env.session.thrown
  /\ probe.calls = <<"sessions.create", "request.get">>
  /\ probe.out.success

\* C29: an accepted job eventually leaves the running state, and when
\* isRunning turns false the progress is 100 or -1.
C29_JobLeavesRunning ==
  /\ scrapingStatus.isRunning ~> ~scrapingStatus.isRunning
  /\ [][(scrapingStatus.isRunning /\ ~scrapingStatus'.isRunning)
          => scrapingStatus'.progress \in {100, -1}]_vars

C29_Witness ==
  /\ ~scrapingStatus.isRunning /\ scrapingStatus.progress = -1
  /\ \E j \in 1..Len(jobs) : jobs[j].pc = "error" /\ ~jobs[j].resumeUrl

\* C30: when the status shows a normally completed job, successCount +
\* failedCount == processedUrls, failedUrls holds one entry per failed
\* outcome of the batch, in order, and currentBatch is the batchId of
\* lastBatchResult.
C30_CompletedStatusConsistent ==
  (~scrapingStatus.isRunning /\ scrapingStatus.progress = 100) =>
    LET failed == SelectSeq(lastBatchResult.results, LAMBDA r : ~r.success)
    IN /\ scrapingStatus.successCount + scrapingStatus.failedCount
            = scrapingStatus.processedUrls
       /\ Len(failedUrls) = scrapingStatus.failedCount
       /\ Len(failedUrls) = Len(failed)
       /\ \A k \in 1..Len(failed) : failedUrls[k].url = failed[k].url
       /\ scrapingStatus.currentBatch = lastBatchResult.batchId

C30_Witness ==
  /\ ~scrapingStatus.isRunning /\ scrapingStatus.progress = 100
  /\ scrapingStatus.successCount = 1 /\ scrapingStatus.failedCount = 1
  /\ Len(failedUrls) = 1
============================================================================
